---- MODULE Spec2Model ----
(***************************************************************************)
(* A model of the Form class of axios-form-handler (src/src/index.ts):     *)
(* one form instance, the process-wide HTTP client slot Form.http, and the *)
(* promise chain request().then().catch().finally() of every submission.   *)
(*                                                                         *)
(* A submission's chain is advanced by one action per handler that runs:   *)
(*   Resolve      the request fulfils and the .then handler runs           *)
(*   Reject       the request rejects and the .catch handler runs          *)
(*   CatchThrown  the .then handler threw and the .catch handler runs      *)
(*   Finally      the .finally handler runs                                *)
(* The answer of the HTTP client is drawn when its first handler runs: the *)
(* form cannot observe a settled promise before that handler.  Handlers of *)
(* different submissions and calls of the form's methods interleave        *)
(* freely between two handlers of one chain, as microtasks and callers do. *)
(* A callback supplied in the options is an invocation recorded in the     *)
(* submission's calls log, with the arguments it received; a callback may  *)
(* return or throw.                                                        *)
(***************************************************************************)
EXTENDS Integers, Sequences, FiniteSets, TLC

\* ----------------------------------------------------------------- bounds
\* Submissions of the form that are in flight at once.
MaxSubs == 2
\* Messages per field in a bulk error mapping (each sequence is non-empty).
MaxMsgs == 2

\* ------------------------------------------------------------ input sets
FieldNames == {"name", "email"}
Values == {"", "x"}
Messages == {"A", "B"}
Urls == {"/api/contact"}
Bodies == {"ok"}

\* null, as an error entry's value (errors: Record<string, string | null>)
Null == "NULL"
\* the value of Form.http before any client is installed
NoClient == "null"
DefaultClient == "axios.create({})"

\* The initial mappings useForm may be given: every mapping from a subset of
\* the field names to the values.
FieldMaps == UNION {[ks -> Values] : ks \in SUBSET FieldNames}

MsgSeqs == UNION {[1..n -> Messages] : n \in 1..MaxMsgs}
\* The bodies' errors mappings: field name -> non-empty sequence of messages.
ErrorBags == UNION {[ks -> MsgSeqs] : ks \in SUBSET FieldNames}

EmptyMap == [k \in {} |-> Null]

CallbackNames == {"onSuccess", "onValidationErrors", "onError", "onFinish"}
\* interface ResponseOption: every callback is optional
ResponseOption == SUBSET CallbackNames

\* The failure objects a request may reject with.  hasResponse = FALSE is a
\* network failure; hasData tells a body from none; hasErrors tells whether
\* the body carries an errors field.
AxiosError ==
    {[thrown |-> FALSE, hasResponse |-> FALSE, status |-> 0, hasData |-> FALSE,
      hasErrors |-> FALSE, errors |-> EmptyMap]}
    \cup {[thrown |-> FALSE, hasResponse |-> TRUE, status |-> st, hasData |-> FALSE,
           hasErrors |-> FALSE, errors |-> EmptyMap] : st \in {422, 500}}
    \cup {[thrown |-> FALSE, hasResponse |-> TRUE, status |-> st, hasData |-> TRUE,
           hasErrors |-> FALSE, errors |-> EmptyMap] : st \in {422, 500}}
    \cup {[thrown |-> FALSE, hasResponse |-> TRUE, status |-> st, hasData |-> TRUE,
           hasErrors |-> TRUE, errors |-> m] : st \in {422, 500}, m \in ErrorBags}

\* What a throwing onSuccess callback hands to the .catch handler: a plain
\* exception, which carries no response.
ThrownError ==
    [thrown |-> TRUE, hasResponse |-> FALSE, status |-> 0, hasData |-> FALSE,
     hasErrors |-> FALSE, errors |-> EmptyMap]

\* ------------------------------------------------------------------ state
VARIABLES
    _initialData,   \* Form._initialData
    _fields,        \* Form._fields
    errors,         \* Form.errors: a mapping with the keys it holds
    processing,     \* Form.processing
    http,           \* Form.http (static)
    subs,           \* the submissions started, in order, each with its chain
    ret,            \* what the last call of a method returned
    last,           \* the operation or handler that ran last, with its inputs
    held,           \* the object a caller obtained from the fields getter
    props           \* own properties of the form assigned by callers

vars == <<_initialData, _fields, errors, processing, http, subs, ret, last,
          held, props>>

\* ---------------------------------------------------------------- getters
fields == _fields

\* What a caller holds after reading form.fields.  The getter returns the
\* object _fields refers to: while _fields refers to it (ref = "live") its
\* contents are those of _fields; once _fields refers to another object
\* (ref = "detached") it keeps contents of its own.
NotHeld == [ref |-> "none", value |-> EmptyMap]

HeldValue == IF held.ref = "live" THEN _fields ELSE held.value

\* this._fields is given a new object: an object held stays as it was
Detached(h, contents) ==
    IF h.ref = "live" THEN [h EXCEPT !.ref = "detached", !.value = contents] ELSE h

hasErrors == Cardinality(DOMAIN errors) > 0

\* ------------------------------------------------------------ constructor
\* errors after the constructor's loop: this.errors[key] = null per key
ConstructorErrors(init) == [k \in DOMAIN init |-> Null]

Init ==
    /\ _initialData \in FieldMaps
    /\ _fields = _initialData
    /\ errors = ConstructorErrors(_initialData)
    /\ processing = FALSE
    /\ http = NoClient
    /\ subs = <<>>
    /\ ret = "this"
    /\ last = [op |-> "useForm"]
    /\ held = NotHeld
    /\ props = EmptyMap

\* a copy of mapping m with key written
Written(m, key, value) ==
    [k \in (DOMAIN m) \cup {key} |-> IF k = key THEN value ELSE m[k]]

\* get fields(), lines 48-50: the caller is handed this._fields
getFields ==
    /\ held' = [ref |-> "live", value |-> EmptyMap]
    /\ ret' = "_fields"
    /\ last' = [op |-> "fields"]
    /\ UNCHANGED <<_initialData, _fields, errors, processing, http, subs, props>>

\* The caller writes key of the object it holds.  While _fields refers to
\* that object the write is a write of _fields, and no property of the form
\* is involved.
WriteHeld(key, value) ==
    /\ held.ref # "none"
    /\ IF held.ref = "live"
       THEN /\ _fields' = Written(_fields, key, value)
            /\ held' = held
       ELSE /\ _fields' = _fields
            /\ held' = [held EXCEPT !.value = Written(@, key, value)]
    /\ last' = [op |-> "heldWrite", key |-> key, value |-> value]
    /\ UNCHANGED <<_initialData, errors, processing, http, subs, ret, props>>

\* an assignment to an undeclared key that is stored with the fields
AssignUndeclaredAsField(key, value) ==
    /\ key \notin DOMAIN _initialData
    /\ _fields' = Written(_fields, key, value)
    /\ last' = [op |-> "assign", key |-> key, value |-> value]
    /\ UNCHANGED <<_initialData, errors, processing, http, subs, ret, held, props>>

\* form[key] = value for a key that was no key of the constructor's fields:
\* no property was defined for it (lines 25-41), so the assignment creates
\* an own data property of the form.
AssignUndeclared(key, value) ==
    /\ key \notin DOMAIN _initialData
    /\ props' = Written(props, key, value)
    /\ last' = [op |-> "assign", key |-> key, value |-> value]
    /\ UNCHANGED <<_initialData, _fields, errors, processing, http, subs, ret, held>>

\* --------------------------------------------------------- setAxiosInstance
Clients == {"api1", "api2"}

\* static setAxiosInstance, lines 44-46 (setFormAxios, lines 142-144)
setAxiosInstance(axiosInstance) ==
    /\ http' = axiosInstance
    /\ ret' = "undefined"
    /\ last' = [op |-> "setFormAxios", client |-> axiosInstance]
    /\ UNCHANGED <<_initialData, _fields, errors, processing, subs, held, props>>

\* -------------------------------------------------------- field property
\* set(value) of the property defined for a declared key (lines 32-37):
\* the value is stored and the key is deleted from errors when it is there.
DeleteKey(errs, key) == [k \in (DOMAIN errs) \ {key} |-> errs[k]]

\* SetField with every error dropped on a write
SetFieldClearsAll(key, value) ==
    /\ key \in DOMAIN _initialData
    /\ _fields' = [_fields EXCEPT ![key] = value]
    /\ errors' = EmptyMap
    /\ last' = [op |-> "set", key |-> key, value |-> value]
    /\ UNCHANGED <<_initialData, processing, http, subs, ret, held, props>>

SetField(key, value) ==
    /\ key \in DOMAIN _initialData
    /\ _fields' = [_fields EXCEPT ![key] = value]
    /\ errors' = IF key \in DOMAIN errors THEN DeleteKey(errors, key) ELSE errors
    /\ last' = [op |-> "set", key |-> key, value |-> value]
    /\ UNCHANGED <<_initialData, processing, http, subs, ret, held, props>>

\* ------------------------------------------------------------ clearErrors
\* this.errors = {}
\* a clearErrors that keeps the entries
KeptErrors(errs) == errs

ClearedErrors(errs) == EmptyMap

clearErrors ==
    /\ errors' = ClearedErrors(errors)
    /\ ret' = "this"
    /\ last' = [op |-> "clearErrors"]
    /\ UNCHANGED <<_initialData, _fields, processing, http, subs, held, props>>

\* --------------------------------------------------------------- setError
\* the else branch: Object.assign({}, this.errors, { [key]: message })
AssignError(errs, key, message) ==
    [k \in (DOMAIN errs) \cup {key} |-> IF k = key THEN message ELSE errs[k]]

\* the last message of the sequence instead of the first
LastMessage(msgs) == msgs[Len(msgs)]

\* key[newKey][0]
FirstMessage(msgs) == msgs[1]

\* the object branch: for (const newKey in key) this.setError(newKey, key[newKey][0])
RECURSIVE SetErrorEach(_, _, _)
SetErrorEach(errs, bag, keys) ==
    IF keys = {} THEN errs
    ELSE LET newKey == CHOOSE k \in keys : TRUE
         IN SetErrorEach(AssignError(errs, newKey, FirstMessage(bag[newKey])),
                         bag, keys \ {newKey})

\* the object branch replacing the errors by those of the object alone
setErrorObjectAlone(errs, bag) == SetErrorEach(EmptyMap, bag, DOMAIN bag)

setErrorObject(errs, bag) == SetErrorEach(errs, bag, DOMAIN bag)

setError(key, message) ==
    /\ errors' = AssignError(errors, key, message)
    /\ ret' = "this"
    /\ last' = [op |-> "setError", key |-> key, message |-> message]
    /\ UNCHANGED <<_initialData, _fields, processing, http, subs, held, props>>

setErrorBulk(bag) ==
    /\ errors' = setErrorObject(errors, bag)
    /\ ret' = "this"
    /\ last' = [op |-> "setErrorBulk", bag |-> bag]
    /\ UNCHANGED <<_initialData, _fields, processing, http, subs, held, props>>

\* ------------------------------------------------------------------ reset
\* Object.assign({}, source)
CopyOf(source) == [k \in DOMAIN source |-> source[k]]

\* the errors after the loop of lines 130-132: every key of _fields is
\* written through its property, which deletes the key from the errors
ErrorsAfterWrites(errs, keys) == [k \in (DOMAIN errs) \ keys |-> errs[k]]

\* reset that rebuilds the fields from the current values
resetFromCurrent ==
    /\ _fields' = CopyOf(_fields)
    /\ errors' = ClearedErrors(ErrorsAfterWrites(errors, DOMAIN _fields'))
    /\ ret' = "this"
    /\ last' = [op |-> "reset"]
    /\ held' = Detached(held, _fields)
    /\ UNCHANGED <<_initialData, processing, http, subs, props>>

reset ==
    /\ _fields' = CopyOf(_initialData)
    /\ errors' = ClearedErrors(ErrorsAfterWrites(errors, DOMAIN _fields'))
    /\ ret' = "this"
    /\ last' = [op |-> "reset"]
    /\ held' = Detached(held, _fields)
    /\ UNCHANGED <<_initialData, processing, http, subs, props>>

\* ---------------------------------------------------------------- request
\* One invocation of a callback of the options: its name and the arguments
\* it was called with; for onFinish also the value processing has at the call.
Call(cb, args) == [cb |-> cb, args |-> args]
CallSeeing(cb, args, proc) == [cb |-> cb, args |-> args, processing |-> proc]

\* What Form.http.request is given: { method, url, ...data }, and the client
\* it is given to.
Config(method, url, data, client) ==
    [method |-> method, url |-> url, hasData |-> data.hasData, data |-> data.data,
     client |-> client]

\* the request of a chain whose request is answered: the client holds none
NoRequest ==
    [method |-> "none", url |-> "none", hasData |-> FALSE, data |-> EmptyMap,
     client |-> NoClient]

\* The chain of a submission.  pc is the handler that runs next: "then"
\* while the request is unanswered, "catch" when the .then handler threw,
\* "finally" when the outcome is handled, "done" after the .finally handler.
\* The handlers close over options (and the form) only; the request in
\* flight is the client's.  outcome and calls are the chain's history.
NewSub(config, options) ==
    [pc |-> "then", config |-> config, options |-> options,
     outcome |-> "pending", calls |-> <<>>]

\* The chains that have not run their .finally handler.  The model keeps a
\* finished chain, for its history, until the next submission starts.
InFlight(chains) == SelectSeq(chains, LAMBDA c : c.pc # "done")

\* the data argument of request(): { data: this.fields } or {}
WithFields == [hasData |-> TRUE, data |-> fields]
\* a delete that sends the fields as the other three do
WithoutDataSendsFields == WithFields

WithoutData == [hasData |-> FALSE, data |-> EmptyMap]

\* a request that creates a client of its own whatever is installed
ClientAlwaysCreated(client) == DefaultClient

\* lines 73-75
ClientInUse(client) == IF client = NoClient THEN DefaultClient ELSE client

\* a request that is issued only when none is in progress
requestWhenIdle(method, url, data, options) ==
    /\ ~processing
    /\ http' = ClientInUse(http)
    /\ processing' = TRUE
    /\ errors' = ClearedErrors(errors)
    /\ subs' = Append(InFlight(subs), NewSub(Config(method, url, data, http'), options))
    /\ ret' = "undefined"
    /\ UNCHANGED <<_initialData, _fields, held, props>>

\* request(method, url, data, options), lines 72-81: the default client is
\* created when none is installed, processing is raised, the errors are
\* cleared and the request is handed to the client.
request(method, url, data, options) ==
    /\ http' = ClientInUse(http)
    /\ processing' = TRUE
    /\ errors' = ClearedErrors(errors)
    /\ subs' = Append(InFlight(subs), NewSub(Config(method, url, data, http'), options))
    /\ ret' = "undefined"
    /\ UNCHANGED <<_initialData, _fields, held, props>>

post(route, options) ==
    /\ request("post", route, WithFields, options)
    /\ last' = [op |-> "post", route |-> route]

put(route, options) ==
    /\ request("put", route, WithFields, options)
    /\ last' = [op |-> "put", route |-> route]

patch(route, options) ==
    /\ request("patch", route, WithFields, options)
    /\ last' = [op |-> "patch", route |-> route]

delete(route, options) ==
    /\ request("delete", route, WithoutData, options)
    /\ last' = [op |-> "delete", route |-> route]

\* ------------------------------------------------------ the .then handler
\* lines 82-86: onSuccess, when supplied, is called with the response's data
ThenCalls(options, data) ==
    IF "onSuccess" \in options THEN <<Call("onSuccess", <<data>>)>> ELSE <<>>

\* a chain that ends where onSuccess throws, with no handler after it
ResolveUncaught(s, data, throws) ==
    /\ s \in 1..Len(subs)
    /\ subs[s].pc = "then"
    /\ throws => "onSuccess" \in subs[s].options
    /\ subs' = [subs EXCEPT ![s] =
                  [@ EXCEPT !.pc = IF throws THEN "done" ELSE "finally",
                            !.config = NoRequest,
                            !.outcome = "success",
                            !.calls = @ \o ThenCalls(subs[s].options, data)]]
    /\ last' = [op |-> "then", sub |-> s, data |-> data, throws |-> throws]
    /\ UNCHANGED <<_initialData, _fields, errors, processing, http, ret, held, props>>

\* the request fulfils with a response carrying data and the .then handler
\* runs; a throwing onSuccess rejects the promise .catch is attached to
Resolve(s, data, throws) ==
    /\ s \in 1..Len(subs)
    /\ subs[s].pc = "then"
    /\ throws => "onSuccess" \in subs[s].options
    /\ subs' = [subs EXCEPT ![s] =
                  [@ EXCEPT !.pc = IF throws THEN "catch" ELSE "finally",
                            !.config = NoRequest,
                            !.outcome = "success",
                            !.calls = @ \o ThenCalls(subs[s].options, data)]]
    /\ last' = [op |-> "then", sub |-> s, data |-> data, throws |-> throws]
    /\ UNCHANGED <<_initialData, _fields, errors, processing, http, ret, held, props>>

\* ----------------------------------------------------- the .catch handler
\* the test without the status
IsValidationFailureAnyStatus(error) == error.hasResponse

\* error.response && error.response.status === 422
IsValidationFailure(error) == error.hasResponse /\ error.status = 422

\* validationErrors && validationErrors.errors
HasErrorBag(error) == error.hasData /\ error.hasErrors

\* lines 88-92: the errors of the form after the handler
CatchErrors(errs, error) ==
    IF IsValidationFailure(error) /\ HasErrorBag(error)
    THEN setErrorObject(errs, error.errors)
    ELSE errs

\* the handler without the return of line 97: a validation failure falls
\* through to onError
CatchCallsFallThrough(options, error, errs) ==
    (IF IsValidationFailure(error) /\ "onValidationErrors" \in options
     THEN <<Call("onValidationErrors", <<errs>>)>>
     ELSE <<>>)
    \o (IF "onError" \in options THEN <<Call("onError", <<error>>)>> ELSE <<>>)

\* the handler taking the 422 branch only when the body carries errors
CatchCallsStrict(options, error, errs) ==
    IF IsValidationFailure(error) /\ HasErrorBag(error)
    THEN IF "onValidationErrors" \in options
         THEN <<Call("onValidationErrors", <<errs>>)>>
         ELSE <<>>
    ELSE IF "onError" \in options
         THEN <<Call("onError", <<error>>)>>
         ELSE <<>>

\* lines 94-102: the callback the handler calls, if any
CatchCalls(options, error, errs) ==
    IF IsValidationFailure(error)
    THEN IF "onValidationErrors" \in options
         THEN <<Call("onValidationErrors", <<errs>>)>>
         ELSE <<>>
    ELSE IF "onError" \in options
         THEN <<Call("onError", <<error>>)>>
         ELSE <<>>

\* The outcome of a request that failed, in the words of the documentation:
\* a network failure, a status other than 422, a 422 carrying an errors
\* mapping, a 422 carrying none.
FailureKind(error) ==
    IF ~error.hasResponse THEN "network"
    ELSE IF error.status # 422 THEN "status"
    ELSE IF HasErrorBag(error) THEN "validation"
    ELSE "malformed422"

\* The handler's effect on the form and on chain s.  A callback that throws
\* here rejects the promise .finally is attached to, and .finally runs its
\* handler for a rejected promise as for a fulfilled one.
CatchHandler(s, error) ==
    /\ errors' = CatchErrors(errors, error)
    /\ subs' = [subs EXCEPT ![s] =
                  [@ EXCEPT !.pc = "finally",
                            !.config = NoRequest,
                            !.outcome = IF error.thrown THEN @ ELSE FailureKind(error),
                            !.calls = @ \o CatchCalls(subs[s].options, error, errors')]]
    /\ last' = [op |-> "catch", sub |-> s, error |-> error]
    /\ UNCHANGED <<_initialData, _fields, processing, http, ret, held, props>>

\* the request rejects with error and the .catch handler runs
Reject(s, error) ==
    /\ s \in 1..Len(subs)
    /\ subs[s].pc = "then"
    /\ CatchHandler(s, error)

\* the .then handler threw and the .catch handler runs with what it threw
CatchThrown(s) ==
    /\ s \in 1..Len(subs)
    /\ subs[s].pc = "catch"
    /\ CatchHandler(s, ThrownError)

\* --------------------------------------------------- the .finally handler
\* onFinish invoked twice
FinallyCallsTwice(options, proc) ==
    IF "onFinish" \in options
    THEN <<CallSeeing("onFinish", <<>>, proc), CallSeeing("onFinish", <<>>, proc)>>
    ELSE <<>>

\* lines 106-108
FinallyCalls(options, proc) ==
    IF "onFinish" \in options THEN <<CallSeeing("onFinish", <<>>, proc)>> ELSE <<>>

\* the handler with onFinish invoked before processing is lowered
FinallyCallbackFirst(s) ==
    /\ s \in 1..Len(subs)
    /\ subs[s].pc = "finally"
    /\ processing' = FALSE
    /\ subs' = [subs EXCEPT ![s] =
                  [@ EXCEPT !.pc = "done",
                            !.calls = @ \o FinallyCalls(subs[s].options, processing)]]
    /\ last' = [op |-> "finally", sub |-> s]
    /\ UNCHANGED <<_initialData, _fields, errors, http, ret, held, props>>

\* lines 104-109
Finally(s) ==
    /\ s \in 1..Len(subs)
    /\ subs[s].pc = "finally"
    /\ processing' = FALSE
    /\ subs' = [subs EXCEPT ![s] =
                  [@ EXCEPT !.pc = "done",
                            !.calls = @ \o FinallyCalls(subs[s].options, processing')]]
    /\ last' = [op |-> "finally", sub |-> s]
    /\ UNCHANGED <<_initialData, _fields, errors, http, ret, held, props>>

\* ------------------------------------------------------- specifications
\* The failures a client answers with, given the errors mappings a 422 may
\* carry; a failure of another status is drawn without one.
Failures(bags) ==
    {e \in AxiosError : e.hasErrors => (e.status = 422 /\ e.errors \in bags)}

\* no callback supplied, or all of them
OptionSets == {{}, CallbackNames}

\* errors mappings of one message per field
ShortBags == {bag \in ErrorBags : \A k \in DOMAIN bag : Len(bag[k]) = 1}

\* The start of a submission by any of the four methods.
Submit(routes, optionSets) ==
    \E route \in routes, options \in optionSets :
        \/ post(route, options)
        \/ put(route, options)
        \/ patch(route, options)
        \/ delete(route, options)

\* A handler of chain s runs.
Handle(s, bags) ==
    \/ \E data \in Bodies, throws \in BOOLEAN : Resolve(s, data, throws)
    \/ \E error \in Failures(bags) : Reject(s, error)
    \/ CatchThrown(s)
    \/ Finally(s)

\* Spec: the form's fields in full (every initial mapping, every field
\* write, every single error), the form submitted again only when its last
\* submission has finished.
Next ==
    \/ \E key \in FieldNames, value \in Values : SetField(key, value)
    \/ clearErrors
    \/ \E key \in FieldNames, message \in Messages \cup {Null} : setError(key, message)
    \/ \E bag \in ShortBags : setErrorBulk(bag)
    \/ reset
    \/ InFlight(subs) = <<>> /\ Submit(Urls, OptionSets)
    \/ \E s \in 1..MaxSubs : Handle(s, ShortBags)

Spec == Init /\ [][Next]_vars

\* SpecErrors: every failure a request may end in, with any set of
\* callbacks, on a form that declares one of the two field names.
ErrorsNames == {"name"}

InitErrors ==
    /\ Init
    /\ _initialData = [k \in ErrorsNames |-> ""]

NextErrors ==
    \/ \E key \in ErrorsNames : SetField(key, "x")
    \/ clearErrors
    \/ \E key \in FieldNames, message \in Messages \cup {Null} : setError(key, message)
    \/ reset
    \/ InFlight(subs) = <<>> /\ Submit(Urls, ResponseOption)
    \/ \E s \in 1..MaxSubs : Handle(s, ErrorBags)

SpecErrors == InitErrors /\ [][NextErrors]_vars

\* SpecSetError: the error mapping under every call that writes it, on the
\* same form, never submitted.
NextSetError ==
    \/ \E key \in ErrorsNames : SetField(key, "x")
    \/ clearErrors
    \/ \E key \in FieldNames, message \in Messages \cup {Null} : setError(key, message)
    \/ \E bag \in ErrorBags : setErrorBulk(bag)
    \/ reset

SpecSetError == InitErrors /\ [][NextSetError]_vars

\* SpecLifecycle: submissions that overlap, on a form of one field.
LifecycleNames == {"name"}
LifecycleBags == {[k \in LifecycleNames |-> <<"A", "B">>]}

InitLifecycle ==
    /\ Init
    /\ _initialData = [k \in LifecycleNames |-> ""]

NextLifecycle ==
    \/ \E key \in LifecycleNames : SetField(key, "x")
    \/ clearErrors
    \/ \E key \in LifecycleNames : setError(key, "A")
    \/ \E bag \in LifecycleBags : setErrorBulk(bag)
    \/ reset
    \/ Len(InFlight(subs)) < MaxSubs /\ Submit(Urls, OptionSets)
    \/ \E s \in 1..MaxSubs : Handle(s, LifecycleBags)

SpecLifecycle == InitLifecycle /\ [][NextLifecycle]_vars

\* SpecClients: the client installed and replaced while submissions without
\* callbacks of a form of one field start, overlap and end.  Form.http is static: the form
\* may be constructed when no client was installed yet, or after a client
\* was installed or created for another form.
InitClients ==
    /\ _initialData = [k \in LifecycleNames |-> ""]
    /\ _fields = _initialData
    /\ errors = ConstructorErrors(_initialData)
    /\ processing = FALSE
    /\ http \in {NoClient, DefaultClient} \cup Clients
    /\ subs = <<>>
    /\ ret = "this"
    /\ last = [op |-> "useForm"]
    /\ held = NotHeld
    /\ props = EmptyMap

NextClients ==
    \/ \E axiosInstance \in Clients : setAxiosInstance(axiosInstance)
    \/ Len(InFlight(subs)) < MaxSubs /\ Submit(Urls, {{}})
    \/ \E s \in 1..MaxSubs, data \in Bodies : Resolve(s, data, FALSE)
    \/ \E s \in 1..MaxSubs : \E error \in {e \in AxiosError : ~e.hasData} : Reject(s, error)
    \/ \E s \in 1..MaxSubs : Finally(s)

SpecClients == InitClients /\ [][NextClients]_vars

\* SpecAlias: a caller that reads form.fields and keeps and writes what it
\* was handed, on a form of one field that is written, given errors and
\* reset, never submitted.
NextAlias ==
    \/ getFields
    \/ \E key \in FieldNames, value \in Values : WriteHeld(key, value)
    \/ \E key \in LifecycleNames, value \in Values : SetField(key, value)
    \/ \E key \in LifecycleNames : setError(key, "A")
    \/ reset

SpecAlias == InitLifecycle /\ [][NextAlias]_vars

\* SpecRace: submissions by post that overlap on a form of two fields, each
\* answered with status 422 and an errors mapping naming none, one or both
\* of the fields with two messages each; nothing else touches the errors.
RaceBags ==
    {bag \in ErrorBags : \A k \in DOMAIN bag : Len(bag[k]) = 2 /\ bag[k][1] # bag[k][2]}

RaceFailures ==
    {e \in AxiosError : e.status = 422 /\ e.hasErrors /\ e.errors \in RaceBags}

InitRace ==
    /\ Init
    /\ _initialData = [k \in FieldNames |-> ""]

NextRace ==
    \/ Len(InFlight(subs)) < MaxSubs /\ \E route \in Urls : post(route, CallbackNames)
    \/ \E s \in 1..MaxSubs : \E error \in RaceFailures : Reject(s, error)
    \/ \E s \in 1..MaxSubs : Finally(s)

SpecRace == InitRace /\ [][NextRace]_vars

\* SpecProps: assignments to properties the constructor did not declare, on
\* forms declaring none, one or both of the field names, which are written,
\* given errors, reset and submitted without callbacks.
PropNames == FieldNames \cup {"phone"}

InitProps ==
    /\ Init
    /\ \A k \in DOMAIN _initialData : _initialData[k] = ""

NextProps ==
    \/ \E key \in PropNames : AssignUndeclared(key, "x")
    \/ \E key \in FieldNames : SetField(key, "x")
    \/ \E key \in FieldNames : setError(key, "A")
    \/ clearErrors
    \/ reset
    \/ InFlight(subs) = <<>> /\ Submit(Urls, {{}})
    \/ \E s \in 1..MaxSubs, data \in Bodies : Resolve(s, data, FALSE)
    \/ \E s \in 1..MaxSubs : \E error \in {e \in AxiosError : e.errors \in ShortBags} : Reject(s, error)
    \/ \E s \in 1..MaxSubs : Finally(s)

SpecProps == InitProps /\ [][NextProps]_vars

\* SpecLive: a form of one field submitted by post, with all callbacks or
\* none, under a client that answers every request and a job queue that runs
\* every handler that is due.  A submission starts beside those in flight
\* while none of the chains on record has finished, or after all of them
\* have, so that a chain keeps its place in subs from its start to its end;
\* submissions may start again and again.
StartLive ==
    /\ \/ InFlight(subs) = <<>>
       \/ InFlight(subs) = subs /\ Len(subs) < MaxSubs
    /\ \E route \in Urls, options \in OptionSets : post(route, options)

\* the failures without a body: no response, status 422, status 500
LiveFailures == {e \in AxiosError : ~e.hasData}

\* The client settles the request of chain s (Resolve or Reject), or the
\* handler of chain s that is due runs (CatchThrown, Finally).
HandleLive(s) ==
    \/ \E data \in Bodies, throws \in BOOLEAN : Resolve(s, data, throws)
    \/ \E error \in LiveFailures : Reject(s, error)
    \/ CatchThrown(s)
    \/ Finally(s)

NextLive ==
    \/ \E key \in LifecycleNames : SetField(key, "x")
    \/ StartLive
    \/ \E s \in 1..MaxSubs : HandleLive(s)

\* every request is answered in the end, and a handler that is due runs
Fairness == \A s \in 1..MaxSubs : WF_vars(HandleLive(s))

SpecLive == InitLifecycle /\ [][NextLive]_vars /\ Fairness

\* ----------------------------------------------------------------- claims
\* the places in the calls log of chain c where callback cb was invoked
CallsOf(c, cb) == {i \in 1..Len(c.calls) : c.calls[i].cb = cb}

OutcomeCallbacks == {"onSuccess", "onValidationErrors", "onError"}

\* C1: a chain invokes onFinish only in its finishing step; once a
\* submission has finished, whatever its outcome, a supplied onFinish has been
\* invoked exactly once, with no arguments, as the last call of the chain (so
\* after its outcome callback), and a chain whose outcome is handled is at
\* its finishing step or past it whether or not an outcome callback was
\* supplied.
C1_OnFinishExactlyOnce ==
    \A s \in 1..Len(subs) :
        LET c == subs[s]
            n == Cardinality(CallsOf(c, "onFinish"))
        IN /\ c.pc # "done" => n = 0
           /\ c.pc = "done" =>
                /\ n = (IF "onFinish" \in c.options THEN 1 ELSE 0)
                /\ c.outcome # "pending"
                /\ "onFinish" \in c.options =>
                     /\ c.calls[Len(c.calls)].cb = "onFinish"
                     /\ c.calls[Len(c.calls)].args = <<>>
           /\ (c.outcome # "pending" /\ c.pc # "catch") => c.pc \in {"finally", "done"}
           /\ \A i \in 1..Len(c.calls) : c.calls[i].cb \in c.options

\* a submission that supplied onFinish and no outcome callback has finished
\* after a validation failure, onFinish invoked
C1_Witness ==
    \E s \in 1..Len(subs) :
        /\ subs[s].pc = "done"
        /\ subs[s].options = {"onFinish"}
        /\ subs[s].outcome = "validation"
        /\ Len(subs[s].calls) = 1

\* C2: processing is false while no submission has been started; every
\* invocation of onFinish sees processing false; processing is true only
\* while some submission has been started and has not run its finishing step.
C2_ProcessingFalseOutsideRequests ==
    /\ subs = <<>> => processing = FALSE
    /\ \A s \in 1..Len(subs) :
         \A i \in CallsOf(subs[s], "onFinish") : subs[s].calls[i].processing = FALSE
    /\ processing = TRUE => \E s \in 1..Len(subs) : subs[s].pc # "done"

\* onFinish of one submission has been invoked while another is in flight
C2_Witness ==
    \E s, t \in 1..Len(subs) :
        /\ subs[s].pc = "done"
        /\ subs[s].outcome = "network"
        /\ CallsOf(subs[s], "onFinish") # {}
        /\ subs[t].pc = "then"

\* C3: processing is true exactly when a request of the form is outstanding
\* (issued and not yet answered and finished).
C3_ProcessingIffOutstanding ==
    processing = (\E s \in 1..Len(subs) : subs[s].pc # "done")

\* the chain the last handler belongs to
LastSub == subs[last.sub]

\* the last step was the .catch handler run for a request that failed with
\* an outcome of the given kinds
CaughtFailure(kinds) ==
    /\ last.op = "catch"
    /\ ~last.error.thrown
    /\ FailureKind(last.error) \in kinds

\* C4: after the .catch handler of a request that failed with status 422 and
\* an errors mapping, every field of the mapping has the first message of its
\* sequence as its error, onValidationErrors (if supplied) has been invoked
\* with the form's resulting errors, it is the only callback invoked, and so
\* onError has not been invoked.
C4_ValidationFailureSetsFirstMessages ==
    CaughtFailure({"validation"}) =>
        /\ \A k \in DOMAIN last.error.errors :
             /\ k \in DOMAIN errors
             /\ errors[k] = last.error.errors[k][1]
        /\ LastSub.calls =
             (IF "onValidationErrors" \in LastSub.options
              THEN <<Call("onValidationErrors", <<errors>>)>>
              ELSE <<>>)
        /\ CallsOf(LastSub, "onError") = {}

\* a 422 naming two messages for a field has been handled with every callback
\* supplied
C4_Witness ==
    /\ CaughtFailure({"validation"})
    /\ "name" \in DOMAIN last.error.errors
    /\ last.error.errors["name"] = <<"A", "B">>
    /\ LastSub.options = CallbackNames
    /\ "email" \in DOMAIN errors
    /\ "email" \notin DOMAIN last.error.errors

\* C5 as stated: after the .catch handler of a request that failed with
\* status 422 and no errors mapping, onError (if supplied) has been invoked
\* with the failure and onValidationErrors has not.
C5_Malformed422CallsOnError ==
    CaughtFailure({"malformed422"}) =>
        /\ LastSub.calls =
             (IF "onError" \in LastSub.options
              THEN <<Call("onError", <<last.error>>)>>
              ELSE <<>>)
        /\ CallsOf(LastSub, "onValidationErrors") = {}

\* C5 amended: the .catch handler of a request that failed with status 422
\* and no errors mapping leaves the form's errors as they are, invokes
\* onValidationErrors (if supplied) with them, and does not invoke onError.
C5_Malformed422CallsOnValidationErrors ==
    [][(/\ last'.op = "catch"
        /\ ~last'.error.thrown
        /\ FailureKind(last'.error) = "malformed422")
       => /\ errors' = errors
          /\ subs'[last'.sub].calls =
               (IF "onValidationErrors" \in subs'[last'.sub].options
                THEN <<Call("onValidationErrors", <<errors>>)>>
                ELSE <<>>)
          /\ CallsOf(subs'[last'.sub], "onError") = {}]_vars

\* a 422 without a body has been handled with every callback supplied, an
\* error being set on the form
C5_Witness ==
    /\ CaughtFailure({"malformed422"})
    /\ ~last.error.hasData
    /\ LastSub.options = CallbackNames
    /\ errors # EmptyMap

\* C6: the .catch handler of a request that failed with no response or with
\* a status other than 422 leaves the form's errors as they are, invokes
\* onError (if supplied) with the failure, and invokes nothing else.
C6_OtherFailureCallsOnError ==
    [][(/\ last'.op = "catch"
        /\ ~last'.error.thrown
        /\ FailureKind(last'.error) \in {"network", "status"})
       => /\ errors' = errors
          /\ subs'[last'.sub].calls =
               (IF "onError" \in subs'[last'.sub].options
                THEN <<Call("onError", <<last'.error>>)>>
                ELSE <<>>)
          /\ CallsOf(subs'[last'.sub], "onValidationErrors") = {}]_vars

\* a network failure has been handled with every callback supplied, the
\* form's errors empty
C6_Witness ==
    /\ CaughtFailure({"network"})
    /\ LastSub.options = CallbackNames
    /\ Len(LastSub.calls) = 1
    /\ errors = EmptyMap

\* C7: hasErrors is false on a form just constructed and on a form reset() has
\* just returned from.
C7_NoErrorsWhenFreshOrReset ==
    last.op \in {"useForm", "reset"} => ~hasErrors

\* get() of the property defined for a declared key (lines 29-31)
FieldProperty(key) == _fields[key]

\* C8: when reset() has returned, the fields and every field property have
\* the values given at construction, the errors are empty and the form itself
\* was returned.
C8_ResetRestoresInitialData ==
    last.op = "reset" =>
        /\ fields = _initialData
        /\ \A k \in DOMAIN _initialData : FieldProperty(k) = _initialData[k]
        /\ errors = EmptyMap
        /\ ~hasErrors
        /\ ret = "this"

\* reset() has returned on a form with fields while a submission is in flight
C8_Witness ==
    /\ last.op = "reset"
    /\ DOMAIN _initialData = FieldNames
    /\ \E s \in 1..Len(subs) : subs[s].pc = "then" /\ subs[s].config.data # _initialData

\* C9: a write to a declared field stores the value and removes the field
\* from the errors; the other fields, the other fields' errors and processing
\* are as they were.
C9_FieldWriteClearsOwnError ==
    [][last'.op = "set" =>
         LET key == last'.key
         IN /\ key \in DOMAIN _initialData
            /\ _fields'[key] = last'.value
            /\ key \notin DOMAIN errors'
            /\ DOMAIN _fields' = DOMAIN _fields
            /\ \A k \in (DOMAIN _fields) \ {key} : _fields'[k] = _fields[k]
            /\ DOMAIN errors' = (DOMAIN errors) \ {key}
            /\ \A k \in DOMAIN errors' : errors'[k] = errors[k]
            /\ processing' = processing]_vars

\* a field has been written while the other field holds an error
C9_Witness ==
    /\ last.op = "set"
    /\ _fields[last.key] # _initialData[last.key]
    /\ \E k \in DOMAIN errors : k # last.key /\ errors[k] \in Messages

\* C10: when the bulk form of setError has returned, every field of the
\* mapping it was given has the first message of its sequence as its error,
\* and the form itself was returned.
C10_BulkSetErrorKeepsFirstMessage ==
    last.op = "setErrorBulk" =>
        /\ \A k \in DOMAIN last.bag :
             /\ k \in DOMAIN errors
             /\ errors[k] = last.bag[k][1]
        /\ \A k \in (DOMAIN errors) \ (DOMAIN last.bag) : errors[k] \in Messages \cup {Null}
        /\ ret = "this"

\* the bulk form has been given two different messages for a field
C10_Witness ==
    /\ last.op = "setErrorBulk"
    /\ "email" \in DOMAIN last.bag
    /\ last.bag["email"] = <<"A", "B">>
    /\ errors["email"] = "A"

\* ------------------------------------------------------------------ C11
SubmitOps == {"post", "put", "patch", "delete"}

\* the chain the submission that ran last has started
Started == subs[Len(subs)]

C14_StartRaisesProcessingAndClearsErrors ==
    [][last'.op \in SubmitOps =>
          /\ processing' = TRUE
          /\ errors' = EmptyMap
          /\ _fields' = _fields
          /\ Started'.pc = "then"]_vars

\* a submission just started on a form with written fields: the request is
\* with the client, processing is up and no error is left
C14_Witness ==
    /\ last.op \in {"post", "put", "patch"}
    /\ Started.pc = "then"
    /\ Started.config.data = _fields
    /\ _fields # _initialData
    /\ processing
    /\ ~hasErrors

\* ------------------------------------------------------------------ C12
\* C12: a submission is handed to the client installed at its start, which
\* is the one the latest setFormAxios before it installed, or the default
\* client created by a submission when none was installed; the client
\* changes only by setFormAxios or by that creation; a request in flight
\* stays with the client it was handed to when the client is replaced.
C12_SubmissionUsesClientInstalledAtStart ==
    [][/\ last'.op \in SubmitOps =>
             /\ Started'.config.client = IF http = NoClient THEN DefaultClient ELSE http
             /\ http' = Started'.config.client
       /\ last'.op = "setFormAxios" => (http' = last'.client /\ subs' = subs)
       /\ last'.op \notin SubmitOps \cup {"setFormAxios"} => http' = http
       /\ last'.op \notin SubmitOps =>
             \A s \in 1..Len(subs) :
                 subs'[s].pc = "then" => subs'[s].config = subs[s].config]_vars

\* two requests in flight, with the default client and with a client
\* installed later, after which another client was installed
C12_Witness ==
    /\ Len(subs) = 2
    /\ subs[1].pc = "then" /\ subs[1].config.client = DefaultClient
    /\ subs[2].pc = "then" /\ subs[2].config.client = "api1"
    /\ http = "api2"

\* ------------------------------------------------------------------ C13
\* C13: what a caller obtained from the fields property is a snapshot: a
\* later write of a field and a later reset leave what it holds as it was,
\* and a write into what it holds leaves the form's field values as they
\* were (so no field changes with its error entry kept).
C13_FieldsIsReadOnlySnapshot ==
    [][/\ (held.ref # "none" /\ last'.op \in {"set", "reset"}) => HeldValue' = HeldValue
       /\ last'.op = "heldWrite" => _fields' = _fields]_vars

\* ------------------------------------------------------------------ C15
\* C15: a submission can start while processing is true, by each of the four
\* methods and with or without callbacks; and every chain that has finished,
\* overlapping or not, has run in its own log the callbacks of its own
\* outcome and its own onFinish once, when they were supplied, and no
\* callback that was not supplied.
C15_NoInFlightGuard ==
    /\ (processing /\ Len(InFlight(subs)) < MaxSubs) =>
           \A route \in Urls, options \in OptionSets :
               /\ ENABLED post(route, options)
               /\ ENABLED put(route, options)
               /\ ENABLED patch(route, options)
               /\ ENABLED delete(route, options)
    /\ \A s \in 1..Len(subs) :
           LET c == subs[s] IN
           c.pc = "done" =>
               /\ \A i \in 1..Len(c.calls) : c.calls[i].cb \in c.options
               /\ Cardinality(CallsOf(c, "onFinish")) =
                      IF "onFinish" \in c.options THEN 1 ELSE 0
               /\ c.options = CallbackNames =>
                      /\ c.outcome = "success" => CallsOf(c, "onSuccess") = {1}
                      /\ c.outcome \in {"validation", "malformed422"} =>
                             CallsOf(c, "onValidationErrors") = {1}
                      /\ c.outcome \in {"network", "status"} => CallsOf(c, "onError") = {1}

\* two submissions that overlapped have both finished, one in success and
\* one in a validation failure, each with its own callbacks in its own log
C15_Witness ==
    /\ Len(subs) = 2
    /\ subs[1].pc = "done" /\ subs[2].pc = "done"
    /\ subs[1].options = CallbackNames /\ subs[2].options = CallbackNames
    /\ subs[1].outcome = "validation" /\ subs[2].outcome = "success"
    /\ CallsOf(subs[1], "onValidationErrors") = {1} /\ CallsOf(subs[1], "onFinish") = {2}
    /\ CallsOf(subs[2], "onSuccess") = {1} /\ CallsOf(subs[2], "onFinish") = {2}
    /\ CallsOf(subs[1], "onSuccess") = {} /\ CallsOf(subs[2], "onValidationErrors") = {}

\* ------------------------------------------------------------------ C17
\* C17: every submission invokes at most one of onSuccess,
\* onValidationErrors and onError; one whose request succeeded invokes
\* onSuccess, when supplied, with the response's data, and neither onError
\* nor onValidationErrors, whether onSuccess returned or threw.
C17_AtMostOneOutcomeCallback ==
    \A s \in 1..Len(subs) :
        LET c == subs[s] IN
        /\ Cardinality({i \in 1..Len(c.calls) : c.calls[i].cb \in OutcomeCallbacks}) <= 1
        /\ c.outcome = "success" =>
               /\ CallsOf(c, "onError") = {}
               /\ CallsOf(c, "onValidationErrors") = {}
               /\ "onSuccess" \in c.options =>
                      /\ CallsOf(c, "onSuccess") = {1}
                      /\ \E data \in Bodies : c.calls[1].args = <<data>>

\* ------------------------------------------------------------------ C16
\* the two chains of SpecRace have both had their 422 response handled, the
\* one the .catch handler ran for last being the second
BothHandled ==
    /\ Len(subs) = 2
    /\ \A s \in 1..2 : subs[s].outcome = "validation" /\ subs[s].pc \in {"finally", "done"}
    /\ last.op = "catch"

\* C16 as stated: when two overlapping submissions have both ended in a 422
\* failure, the error mapping is the one of the response handled second
\* alone: its fields with their first messages and no other entry.
C16_SecondResponseAloneSetsErrors ==
    BothHandled =>
        /\ DOMAIN errors = DOMAIN last.error.errors
        /\ \A k \in DOMAIN errors : errors[k] = last.error.errors[k][1]

\* C16: the .catch handler of a 422 response with an errors mapping sets the
\* entry of every field the mapping names to the first message for it and
\* keeps every other entry of the error mapping, those a response handled
\* earlier has set included.
C16_SecondResponseOverwritesNamedFields ==
    [][(last'.op = "catch" /\ ~last'.error.thrown /\ FailureKind(last'.error) = "validation") =>
          /\ DOMAIN errors' = (DOMAIN errors) \cup (DOMAIN last'.error.errors)
          /\ \A k \in DOMAIN last'.error.errors : errors'[k] = last'.error.errors[k][1]
          /\ \A k \in (DOMAIN errors) \ (DOMAIN last'.error.errors) :
                 errors'[k] = errors[k]]_vars

\* the submission started first is answered second: its response names
\* email alone, and the entry for name is the one the other response set
C16_Witness ==
    /\ BothHandled
    /\ last.sub = 1
    /\ DOMAIN last.error.errors = {"email"}
    /\ DOMAIN errors = {"name", "email"}
    /\ errors["email"] = last.error.errors["email"][1]
    /\ subs[2].calls[1] = Call("onValidationErrors", <<[name |-> errors["name"]]>>)

\* ------------------------------------------------------------------ C19
\* C19: whatever is done with the form, the keys of its field mapping are
\* the keys of the mapping it was constructed with, and so are the keys of
\* the data of every request in flight that carries data; an assignment to a
\* property that was not declared leaves the field mapping as it was.
C19_FieldKeysAreTheDeclaredKeys ==
    [][/\ DOMAIN _fields' = DOMAIN _initialData'
       /\ \A s \in 1..Len(subs') :
              (subs'[s].pc = "then" /\ subs'[s].config.hasData) =>
                  DOMAIN subs'[s].config.data = DOMAIN _initialData'
       /\ last'.op = "assign" => _fields' = _fields]_vars

\* email and phone were assigned on a form declaring name alone, and a
\* submission that followed sends name alone
C19_Witness ==
    /\ DOMAIN _initialData = {"name"}
    /\ DOMAIN props = {"email", "phone"}
    /\ last.op = "post"
    /\ Started.pc = "then"
    /\ Started.config.data = [name |-> "x"]

\* ------------------------------------------------------------------ C18
\* C18: under a client that answers every request, every submission that
\* has started has its .finally handler run, also when its onSuccess threw;
\* and if from some point on no submission starts, then from some point on
\* processing is false.
C18_EverySubmissionFinishes ==
    /\ \A s \in 1..MaxSubs :
           (Len(subs) >= s /\ subs[s].pc # "done") ~> (Len(subs) >= s /\ subs[s].pc = "done")
    /\ <>[][last'.op \notin SubmitOps]_vars => <>[](processing = FALSE)

\* two submissions overlapped, the onSuccess of the first threw, and both
\* have run their .finally handler: processing is false
C18_Witness ==
    /\ Len(subs) = 2
    /\ subs[1].pc = "done" /\ subs[2].pc = "done"
    /\ subs[1].outcome = "success" /\ CallsOf(subs[1], "onError") # {}
    /\ CallsOf(subs[1], "onFinish") # {} /\ CallsOf(subs[2], "onFinish") # {}
    /\ processing = FALSE

====
